---- MODULE Spec2Model ----
(***************************************************************************)
(* Model of the Anchore scan client (pkg/anchore/client.go): the calls     *)
(* CheckImage, GetScanReport and GetImageDigest of one AnchoreClient       *)
(* against a remote engine whose answers are chosen nondeterministically.  *)
(***************************************************************************)
EXTENDS Integers, Sequences, FiniteSets, TLC

(***************************************************************************)
(* Bounds of the model.                                                    *)
(***************************************************************************)
MaxInvocations == 2     \* invocations made one after the other by a caller
MaxImages == 1          \* image records in an answer of the image index
MaxEntries == 2         \* entries of a decoded report collection
MaxReports == 2         \* reports listed under one tag

(***************************************************************************)
(* Values.                                                                 *)
(***************************************************************************)
Calls == {"c1", "c2"}
SeqCalls == {"c1"}
Ops == {"CheckImage", "GetScanReport", "GetImageDigest"}
ImageRefs == {"nginx:1.19", "redis:6"}
Digests == {"sha256:aa", "sha256:bb", "%zz"}
FullTags == {"docker.io/nginx:1.19", "docker.io/nginx:latest"}
BaseUrls == {"https://anchore:8228/v1", "https://anchore:82 28/v1"}
StatusCodes == {200, 404, 500}
TransportErrs == {"connection refused"}
JsonErrs == {"unexpected end of JSON input"}

NilErr == "<nil>"
NilPtr == [isNil |-> TRUE, Status |-> <<>>]
NoBody == [jsonErr |-> "unexpected end of JSON input", value |-> <<>>]

\* status strings of a report, as sequences of characters
StPass == <<"p", "a", "s", "s">>
StPASS == <<"P", "A", "S", "S">>
StPassMixed == <<"P", "a", "s", "S">>
StFail == <<"f", "a", "i", "l">>
StAnalyzing == <<"a", "n", "a", "l", "y", "z", "i", "n", "g">>
StPassed == <<"p", "a", "s", "s", "e", "d">>
StEmpty == <<>>
Statuses == {StPass, StPASS, StPassMixed, StFail, StAnalyzing, StPassed, StEmpty}

\* a ToLower that leaves its argument as it is
ToLower_Identity(s) == s

(***************************************************************************)
(* strings.ToLower on the letters of the statuses.                         *)
(***************************************************************************)
UpperLetters == <<"A", "B", "C", "D", "E", "F", "G", "H", "I", "J", "K", "L", "M",
                  "N", "O", "P", "Q", "R", "S", "T", "U", "V", "W", "X", "Y", "Z">>
LowerLetters == <<"a", "b", "c", "d", "e", "f", "g", "h", "i", "j", "k", "l", "m",
                  "n", "o", "p", "q", "r", "s", "t", "u", "v", "w", "x", "y", "z">>

ToLowerRune(ch) ==
    IF \E i \in 1..Len(UpperLetters) : UpperLetters[i] = ch
    THEN LowerLetters[CHOOSE i \in 1..Len(UpperLetters) : UpperLetters[i] = ch]
    ELSE ch

ToLower(s) == [i \in 1..Len(s) |-> ToLowerRune(s[i])]

(***************************************************************************)
(* Error values: an error is its message, NilErr is the nil error.         *)
(***************************************************************************)
errNotFound == "response from Anchore: 404"

ErrRequest(e) == "failed to complete request to Anchore: " \o e
\* an error made of the status line instead of the status code
ErrStatus_StatusLine(code) ==
    "response from Anchore: " \o ToString(code) \o (IF code = 404 THEN " Not Found" ELSE "")
ErrStatus(code) == "response from Anchore: " \o ToString(code)
ErrUnmarshal(e) == "failed to unmarshal JSON from response: " \o e
ErrEmptyList == "Scan report list is empty"
ErrMultiple == "Unexpected scan report: multiple entries"
ErrDigestMismatch == "Digest in the scan report does not match"
ErrScanFailed == "Scan result is FAILED"
ErrNoDigest == "Unable to obtain image digest"

(***************************************************************************)
(* NewClient: the client keeps the base URL and the token it is given.     *)
(***************************************************************************)
NewClient(baseUrl, secureToken) == [baseUrl |-> baseUrl, secureToken |-> secureToken]

(***************************************************************************)
(* http.NewRequest parses the URL; a URL is kept as the sequence of the    *)
(* strings it is concatenated from, and it parses iff each of them does.   *)
(***************************************************************************)
Unparseable == {"https://anchore:82 28/v1", "%zz"}
ParseOk(url) == \A i \in 1..Len(url) : url[i] \notin Unparseable

(***************************************************************************)
(* anchoreRequest: the outcome of one request, given the answer resp of    *)
(* the transport.  kind is "fatal" when the request cannot be built        *)
(* (klog.Fatal ends the process), otherwise "return" with (body, err).     *)
(***************************************************************************)
anchoreRequest(c, path, resp) ==
    LET fullURL == <<c.baseUrl>> \o path IN
    IF ~ParseOk(fullURL)
    THEN [kind |-> "fatal", body |-> NoBody, err |-> NilErr]
    ELSE IF resp.doErr # NilErr
    THEN [kind |-> "return", body |-> NoBody, err |-> ErrRequest(resp.doErr)]
    ELSE IF resp.readErr # NilErr
    THEN [kind |-> "return", body |-> NoBody, err |-> ErrRequest(resp.readErr)]
    ELSE IF resp.StatusCode # 200
    THEN [kind |-> "return", body |-> NoBody, err |-> ErrStatus(resp.StatusCode)]
    ELSE [kind |-> "return", body |-> resp.body, err |-> NilErr]

(***************************************************************************)
(* Answers of the transport.  A body is what json.Unmarshal makes of it    *)
(* for the type it is decoded into: jsonErr is the decoding error (NilErr  *)
(* when it decodes) and value the decoded value.                           *)
(***************************************************************************)
Body(v) == [jsonErr |-> NilErr, value |-> v]
MalformedBodies == {[jsonErr |-> e, value |-> <<>>] : e \in JsonErrs}

Answers(bodies, errorBodies) ==
    {[doErr |-> e, readErr |-> NilErr, StatusCode |-> 0, body |-> NoBody] :
        e \in TransportErrs}
    \cup {[doErr |-> NilErr, readErr |-> e, StatusCode |-> 200, body |-> NoBody] :
        e \in TransportErrs}
    \cup {[doErr |-> NilErr, readErr |-> NilErr, StatusCode |-> code, body |-> b] :
        code \in StatusCodes \ {200}, b \in errorBodies}
    \cup {[doErr |-> NilErr, readErr |-> NilErr, StatusCode |-> 200, body |-> b] :
        b \in bodies}

NotFoundAnswers(errorBodies) ==
    {[doErr |-> NilErr, readErr |-> NilErr, StatusCode |-> 404, body |-> b] :
        b \in errorBodies}

\* POST /images: the body of the answer is not decoded
RegisterBodies == {Body(<<>>)} \cup MalformedBodies

\* GET /images: a sequence of image records
ImageLists == UNION {[1..n -> [imageDigest : Digests]] : n \in 0..MaxImages}
ImageBodies == {Body(l) : l \in ImageLists} \cup MalformedBodies

\* GET /images/<digest>/check: a sequence of mappings from digest to a
\* mapping from full tag to a sequence of reports
ReportLists ==
    {<<>>} \cup
    {[i \in 1..n |-> [Status |-> IF i = 1 THEN s ELSE rest]] :
        s \in Statuses, n \in 1..MaxReports, rest \in {StPass, StFail}}
ShortReportLists == {<<>>, <<[Status |-> StPass]>>, <<[Status |-> StFail]>>}
TagMaps ==
    UNION {[T -> ReportLists] : T \in {S \in SUBSET FullTags : Cardinality(S) <= 1}}
    \cup [FullTags -> ShortReportLists]
Entries == {[d \in D |-> tm] : D \in SUBSET Digests, tm \in TagMaps}
Collections == {[i \in 1..n |-> e] : n \in 0..MaxEntries, e \in Entries}
ReportBodies == {Body(coll) : coll \in Collections} \cup MalformedBodies

(***************************************************************************)
(* Outcomes of a function of the client: it returns, it panics, or the     *)
(* process is ended by klog.Fatal.                                         *)
(***************************************************************************)
Fatal == [kind |-> "fatal", digest |-> "", report |-> NilPtr, ok |-> FALSE, err |-> NilErr]
Panic == [kind |-> "panic", digest |-> "", report |-> NilPtr, ok |-> FALSE, err |-> NilErr]
Return(digest, report, ok, err) ==
    [kind |-> "return", digest |-> digest, report |-> report, ok |-> ok, err |-> err]
Ptr(report) == [isNil |-> FALSE, Status |-> report.Status]

\* a getReport that reads the same tag of a mapping every time
getReport_SameTag(c, digest, tag, resp) ==
    LET path == <<"/images/", digest, "/check?tag=", tag, "&history=false&detail=true">>
        r == anchoreRequest(c, path, resp)
        result == r.body.value
    IN  IF r.kind = "fatal" THEN {Fatal}
        ELSE IF r.err # NilErr
        THEN {Return("", NilPtr, FALSE, r.err)}
        ELSE IF r.body.jsonErr # NilErr
        THEN {Return("", NilPtr, FALSE, r.body.jsonErr)}
        ELSE IF Len(result) = 0
        THEN {Return("", NilPtr, FALSE, ErrEmptyList)}
        ELSE IF Len(result) > 1
        THEN {Return("", NilPtr, FALSE, ErrMultiple)}
        ELSE IF digest \notin DOMAIN result[1]
        THEN {Return("", NilPtr, FALSE, ErrDigestMismatch)}
        ELSE LET tags == result[1][digest] IN
             IF DOMAIN tags = {}
             THEN {Panic}
             ELSE LET fullTag == CHOOSE t \in DOMAIN tags : TRUE IN
                  {IF Len(tags[fullTag]) = 0
                   THEN Panic
                   ELSE Return("", Ptr(tags[fullTag][1]), FALSE, NilErr)}

\* getReport without the check for several entries
getReport_FirstOfMany(c, digest, tag, resp) ==
    LET path == <<"/images/", digest, "/check?tag=", tag, "&history=false&detail=true">>
        r == anchoreRequest(c, path, resp)
        result == r.body.value
    IN  IF r.kind = "fatal" THEN {Fatal}
        ELSE IF r.err # NilErr /\ r.err = errNotFound
        THEN {Return("", NilPtr, FALSE, r.err)}
        ELSE IF r.err # NilErr
        THEN {Return("", NilPtr, FALSE, r.err)}
        ELSE IF r.body.jsonErr # NilErr
        THEN {Return("", NilPtr, FALSE, r.body.jsonErr)}
        ELSE IF Len(result) = 0
        THEN {Return("", NilPtr, FALSE, ErrEmptyList)}
        ELSE IF digest \notin DOMAIN result[1]
        THEN {Return("", NilPtr, FALSE, ErrDigestMismatch)}
        ELSE LET tags == result[1][digest] IN
             IF DOMAIN tags = {}
             THEN {Panic}
             ELSE {IF Len(tags[fullTag]) = 0
                   THEN Panic
                   ELSE Return("", Ptr(tags[fullTag][1]), FALSE, NilErr) :
                        fullTag \in DOMAIN tags}

(***************************************************************************)
(* getReport: the set of its possible outcomes for one answer; the tag     *)
(* whose reports are read is the first key in the iteration order of a     *)
(* map, which is any of its keys.                                          *)
(***************************************************************************)
getReport(c, digest, tag, resp) ==
    LET path == <<"/images/", digest, "/check?tag=", tag, "&history=false&detail=true">>
        r == anchoreRequest(c, path, resp)
        result == r.body.value
    IN  IF r.kind = "fatal" THEN {Fatal}
        ELSE IF r.err # NilErr /\ r.err = errNotFound
        THEN {Return("", NilPtr, FALSE, r.err)}
        ELSE IF r.err # NilErr
        THEN {Return("", NilPtr, FALSE, r.err)}
        ELSE IF r.body.jsonErr # NilErr
        THEN {Return("", NilPtr, FALSE, r.body.jsonErr)}
        ELSE IF Len(result) = 0
        THEN {Return("", NilPtr, FALSE, ErrEmptyList)}
        ELSE IF Len(result) > 1
        THEN {Return("", NilPtr, FALSE, ErrMultiple)}
        ELSE IF digest \notin DOMAIN result[1]
        THEN {Return("", NilPtr, FALSE, ErrDigestMismatch)}
        ELSE LET tags == result[1][digest] IN
             IF DOMAIN tags = {}
             THEN {Panic}
             ELSE {IF Len(tags[fullTag]) = 0
                   THEN Panic
                   ELSE Return("", Ptr(tags[fullTag][1]), FALSE, NilErr) :
                        fullTag \in DOMAIN tags}

\* getStatus admitting an image whose report is not found
getStatus_AllowNotFound(result) ==
    IF result.kind # "return" THEN result
    ELSE IF result.err # NilErr /\ result.err = errNotFound
    THEN Return("", NilPtr, TRUE, NilErr)
    ELSE IF result.err # NilErr THEN Return("", NilPtr, FALSE, result.err)
    ELSE IF ToLower(result.report.Status) = StPass
    THEN Return("", NilPtr, TRUE, NilErr)
    ELSE Return("", NilPtr, FALSE, ErrScanFailed)

(***************************************************************************)
(* getStatus, from the return of its call of getReport with result: the    *)
(* verdict on the report.                                                  *)
(***************************************************************************)
getStatus(result) ==
    IF result.kind # "return" THEN result
    ELSE IF result.err # NilErr THEN Return("", NilPtr, FALSE, result.err)
    ELSE IF ToLower(result.report.Status) = StPass
    THEN Return("", NilPtr, TRUE, NilErr)
    ELSE Return("", NilPtr, FALSE, ErrScanFailed)

(***************************************************************************)
(* getDigest: the digest of the first image record of the answer.          *)
(***************************************************************************)
getDigest(c, imageRef, resp) ==
    LET r == anchoreRequest(c, <<"/images">>, resp)
        images == r.body.value
    IN  IF r.kind = "fatal" THEN Fatal
        ELSE IF r.err # NilErr THEN Return("", NilPtr, FALSE, r.err)
        ELSE IF r.body.jsonErr # NilErr
        THEN Return("", NilPtr, FALSE, ErrUnmarshal(r.body.jsonErr))
        ELSE IF Len(images) = 0 THEN Panic
        ELSE Return(images[1].imageDigest, NilPtr, FALSE, NilErr)

(***************************************************************************)
(* addImage: registers the image.                                          *)
(***************************************************************************)
addImage(c, image, resp) ==
    LET r == anchoreRequest(c, <<"/images">>, resp)
    IN  IF r.kind = "fatal" THEN Fatal
        ELSE IF r.err # NilErr THEN Return("", NilPtr, FALSE, r.err)
        ELSE Return("", NilPtr, FALSE, NilErr)

(***************************************************************************)
(* State.  The client and the remote engine are fixed at construction;     *)
(* every call has the locals of GetImageDigest (digest, err, count), the   *)
(* place it is at, and what it returned.  The other variables record the   *)
(* current invocation: trace the calls made so far with the kind of their  *)
(* outcome, answer the answer of the transport to the last of them,        *)
(* lastAttempt the outcome of the last getDigest, gidRet what              *)
(* GetImageDigest returned, fetched the outcome of getReport, known        *)
(* whether the registration of this invocation is of the image that the    *)
(* invocation before registered (kept until the first getDigest).  adm is  *)
(* the admission request being handled by the admission server.            *)
(***************************************************************************)
VARIABLES client, engine, exited, pc, op, image, digest, err, count, ret,
          gidRet, lastAttempt, fetched, answer, trace, inv, known, adm

vars == <<client, engine, exited, pc, op, image, digest, err, count, ret,
          gidRet, lastAttempt, fetched, answer, trace, inv, known, adm>>

\* the remote engine: answering anything, 404 to every resolution, 404 to
\* every registration and resolution, 404 to every report request, or up and
\* answering in the form it documents
EngineModes == {"any", "resolve404", "all404", "unscanned", "ready"}
NoRet == [kind |-> "none", digest |-> "", report |-> NilPtr, ok |-> FALSE, err |-> NilErr]
NoAnswer == [doErr |-> NilErr, readErr |-> NilErr, StatusCode |-> 0, body |-> NoBody]
\* the answer to a request: none when the request could not be built
Received(result, resp) == IF result.kind = "fatal" THEN NoAnswer ELSE resp
Ev(call, out) == [call |-> call, out |-> out]
OutOf(result) ==
    IF result.kind # "return" THEN result.kind
    ELSE IF result.err # NilErr THEN "err" ELSE "ok"

\* the answers the remote engine can give to each request
ImageErrorBodies == {Body(<<>>), Body(<<[imageDigest |-> "sha256:aa"]>>)} \cup MalformedBodies
ReportErrorBodies ==
    {Body(<<>>),
     Body(<<[d \in {"sha256:aa", "sha256:bb"} |->
                [t \in {"docker.io/nginx:1.19"} |-> <<[Status |-> StPass]>>]]>>)}
    \cup MalformedBodies
\* the answers of an engine that is up: the image is registered or the
\* engine fails, the image is not analysed yet or has one record, the report
\* is not there yet or is the one report of the one tag of the digest
ReadyDigests == {"sha256:aa", "sha256:bb"}
Ok200(b) == [doErr |-> NilErr, readErr |-> NilErr, StatusCode |-> 200, body |-> b]
ReadyRegisterAnswers ==
    {Ok200(Body(<<>>)),
     [doErr |-> NilErr, readErr |-> NilErr, StatusCode |-> 500, body |-> Body(<<>>)]}
ReadyResolveAnswers ==
    NotFoundAnswers({Body(<<>>)})
    \cup {Ok200(Body(<<[imageDigest |-> d]>>)) : d \in ReadyDigests}
ReadyReportAnswers ==
    NotFoundAnswers({Body(<<>>)})
    \cup {Ok200(Body(<<[d \in ReadyDigests |->
                          [t \in {"docker.io/nginx:1.19"} |-> <<[Status |-> s]>>]]>>)) :
            s \in {StPASS, StFail}}

RegisterAnswers ==
    IF engine = "all404" THEN NotFoundAnswers(RegisterBodies)
    ELSE IF engine = "ready" THEN ReadyRegisterAnswers
    ELSE Answers(RegisterBodies, RegisterBodies)
ResolveAnswers ==
    IF engine \in {"resolve404", "all404"} THEN NotFoundAnswers(ImageErrorBodies)
    ELSE IF engine = "ready" THEN ReadyResolveAnswers
    ELSE Answers(ImageBodies, ImageErrorBodies)
ReportAnswers ==
    IF engine = "unscanned" THEN NotFoundAnswers(ReportErrorBodies)
    ELSE IF engine = "ready" THEN ReadyReportAnswers
    ELSE Answers(ReportBodies, ReportErrorBodies)

\* the invocation of c that ends registered the image img
Registered(c, img) ==
    /\ image[c] = img
    /\ trace[c] # <<>>
    /\ trace[c][1] = Ev("addImage", "ok")

\* no admission request is being handled
NoDecision == [Allowed |-> FALSE, Reason |-> NilErr]
NoResponse == [kind |-> "none", UID |-> "", Allowed |-> FALSE, Result |-> [Message |-> ""]]
NoAdmission ==
    [pc |-> "idle", uid |-> "", pod |-> <<>>, checked |-> <<>>,
     decision |-> NoDecision, response |-> NoResponse]

Init ==
    /\ client \in {NewClient(u, "token") : u \in BaseUrls}
    /\ engine \in EngineModes
    /\ exited = FALSE
    /\ pc = [c \in Calls |-> "idle"]
    /\ op = [c \in Calls |-> "CheckImage"]
    /\ image = [c \in Calls |-> "nginx:1.19"]
    /\ digest = [c \in Calls |-> ""]
    /\ err = [c \in Calls |-> NilErr]
    /\ count = [c \in Calls |-> 0]
    /\ ret = [c \in Calls |-> NoRet]
    /\ gidRet = [c \in Calls |-> NoRet]
    /\ lastAttempt = [c \in Calls |-> NoRet]
    /\ fetched = [c \in Calls |-> NoRet]
    /\ answer = [c \in Calls |-> NoAnswer]
    /\ trace = [c \in Calls |-> <<>>]
    /\ inv = [c \in Calls |-> 0]
    /\ known = [c \in Calls |-> FALSE]
    /\ adm = NoAdmission

\* an invocation that registers on the first invocation only
Invoke_SkipRegistered(c, o, img) ==
    /\ ~exited
    /\ pc[c] \in {"idle", "done"}
    /\ inv[c] < MaxInvocations
    /\ pc' = [pc EXCEPT ![c] = IF inv[c] >= 1 THEN "getDigest" ELSE "addImage"]
    /\ op' = [op EXCEPT ![c] = o]
    /\ image' = [image EXCEPT ![c] = img]
    /\ digest' = [digest EXCEPT ![c] = ""]
    /\ err' = [err EXCEPT ![c] = NilErr]
    /\ count' = [count EXCEPT ![c] = 0]
    /\ ret' = [ret EXCEPT ![c] = NoRet]
    /\ gidRet' = [gidRet EXCEPT ![c] = NoRet]
    /\ lastAttempt' = [lastAttempt EXCEPT ![c] = NoRet]
    /\ fetched' = [fetched EXCEPT ![c] = NoRet]
    /\ answer' = [answer EXCEPT ![c] = NoAnswer]
    /\ trace' = [trace EXCEPT ![c] = <<>>]
    /\ inv' = [inv EXCEPT ![c] = @ + 1]
    /\ known' = [known EXCEPT ![c] = Registered(c, img)]
    /\ UNCHANGED <<adm, client, engine, exited>>

(***************************************************************************)
(* A caller invokes CheckImage, GetScanReport or GetImageDigest: the       *)
(* locals are fresh, and the first statement reached is addImage.          *)
(***************************************************************************)
Invoke(c, o, img) ==
    /\ ~exited
    /\ pc[c] \in {"idle", "done"}
    /\ inv[c] < MaxInvocations
    /\ pc' = [pc EXCEPT ![c] = "addImage"]
    /\ op' = [op EXCEPT ![c] = o]
    /\ image' = [image EXCEPT ![c] = img]
    /\ digest' = [digest EXCEPT ![c] = ""]
    /\ err' = [err EXCEPT ![c] = NilErr]
    /\ count' = [count EXCEPT ![c] = 0]
    /\ ret' = [ret EXCEPT ![c] = NoRet]
    /\ gidRet' = [gidRet EXCEPT ![c] = NoRet]
    /\ lastAttempt' = [lastAttempt EXCEPT ![c] = NoRet]
    /\ fetched' = [fetched EXCEPT ![c] = NoRet]
    /\ answer' = [answer EXCEPT ![c] = NoAnswer]
    /\ trace' = [trace EXCEPT ![c] = <<>>]
    /\ inv' = [inv EXCEPT ![c] = @ + 1]
    /\ known' = [known EXCEPT ![c] = Registered(c, img)]
    /\ UNCHANGED <<adm, client, engine, exited>>

(***************************************************************************)
(* What the caller of GetImageDigest does with its result (d, e).          *)
(***************************************************************************)
\* a CheckImage that hands on the error of GetImageDigest
CheckImage_Propagate(d, e) ==
    IF e # NilErr
    THEN [pc |-> "done", ret |-> Return("", NilPtr, FALSE, e)]
    ELSE [pc |-> "getStatus", ret |-> NoRet]

CheckImage(d, e) ==
    IF e # NilErr
    THEN [pc |-> "done", ret |-> Return("", NilPtr, FALSE, ErrNoDigest)]
    ELSE [pc |-> "getStatus", ret |-> NoRet]

GetScanReport(d, e) ==
    IF e # NilErr
    THEN [pc |-> "done", ret |-> Return("", NilPtr, FALSE, ErrNoDigest)]
    ELSE [pc |-> "getReport", ret |-> NoRet]

Caller(o, d, e) ==
    CASE o = "CheckImage" -> CheckImage(d, e)
      [] o = "GetScanReport" -> GetScanReport(d, e)
      [] OTHER -> [pc |-> "done", ret |-> Return(d, NilPtr, FALSE, e)]

\* GetImageDigest returns (d, e) in call c
ReturnDigest(c, d, e) ==
    /\ gidRet' = [gidRet EXCEPT ![c] = Return(d, NilPtr, FALSE, e)]
    /\ pc' = [pc EXCEPT ![c] = Caller(op[c], d, e).pc]
    /\ ret' = [ret EXCEPT ![c] = Caller(op[c], d, e).ret]

\* the call ends without returning: a panic, or the end of the process
Abort(c, kind) ==
    /\ pc' = [pc EXCEPT ![c] = kind]
    /\ exited' = (kind = "fatal")

\* a client that remembers the image it registered and refuses it again
GetImageDigest_addImage_AlreadyRegistered(c) ==
    /\ ~exited
    /\ pc[c] = "addImage"
    /\ \E resp \in RegisterAnswers :
         LET sent == addImage(client, image[c], resp)
             result == IF known[c] /\ sent.kind = "return"
                       THEN Return("", NilPtr, FALSE, "image already registered")
                       ELSE sent
         IN
         /\ trace' = [trace EXCEPT ![c] = Append(@, Ev("addImage", OutOf(result)))]
         /\ answer' = [answer EXCEPT ![c] = Received(result, resp)]
         /\ IF result.kind # "return"
            THEN /\ Abort(c, result.kind)
                 /\ UNCHANGED <<err, ret, gidRet>>
            ELSE /\ err' = [err EXCEPT ![c] = result.err]
                 /\ IF result.err # NilErr
                    THEN ReturnDigest(c, digest[c], result.err)
                    ELSE /\ pc' = [pc EXCEPT ![c] = "getDigest"]
                         /\ UNCHANGED <<ret, gidRet>>
                 /\ UNCHANGED exited
    /\ UNCHANGED <<adm, client, engine, op, image, digest, count, lastAttempt, fetched, inv, known>>

(***************************************************************************)
(* GetImageDigest, first statement: addImage, and the return if it fails.  *)
(***************************************************************************)
GetImageDigest_addImage(c) ==
    /\ ~exited
    /\ pc[c] = "addImage"
    /\ \E resp \in RegisterAnswers :
         LET result == addImage(client, image[c], resp) IN
         /\ trace' = [trace EXCEPT ![c] = Append(@, Ev("addImage", OutOf(result)))]
         /\ answer' = [answer EXCEPT ![c] = Received(result, resp)]
         /\ IF result.kind # "return"
            THEN /\ Abort(c, result.kind)
                 /\ UNCHANGED <<err, ret, gidRet>>
            ELSE /\ err' = [err EXCEPT ![c] = result.err]
                 /\ IF result.err # NilErr
                    THEN ReturnDigest(c, digest[c], result.err)
                    ELSE /\ pc' = [pc EXCEPT ![c] = "getDigest"]
                         /\ UNCHANGED <<ret, gidRet>>
                 /\ UNCHANGED exited
    /\ UNCHANGED <<adm, client, engine, op, image, digest, count, lastAttempt, fetched, inv, known>>

(***************************************************************************)
(* GetImageDigest, loop body up to the sleep: one getDigest attempt.       *)
(***************************************************************************)
MaxRetries == 5
\* a retry bound that gives up one attempt early
Exhausted_OneLess(n) == n >= MaxRetries - 1
\* a retry bound that is off by one
Exhausted_OneMore(n) == n > MaxRetries
Exhausted(n) == n >= MaxRetries

\* a loop that retries a NotFound failure only
GetImageDigest_getDigest_NotFoundOnly(c) ==
    /\ ~exited
    /\ pc[c] = "getDigest"
    /\ \E resp \in ResolveAnswers :
         LET result == getDigest(client, image[c], resp) IN
         /\ trace' = [trace EXCEPT ![c] = Append(@, Ev("getDigest", OutOf(result)))]
         /\ lastAttempt' = [lastAttempt EXCEPT ![c] = result]
         /\ answer' = [answer EXCEPT ![c] = Received(result, resp)]
         /\ IF result.kind # "return"
            THEN /\ Abort(c, result.kind)
                 /\ UNCHANGED <<digest, err, ret, gidRet>>
            ELSE /\ digest' = [digest EXCEPT ![c] = result.digest]
                 /\ err' = [err EXCEPT ![c] = result.err]
                 /\ IF result.err = NilErr
                    THEN ReturnDigest(c, result.digest, result.err)
                    ELSE IF Exhausted(count[c]) \/ result.err # errNotFound
                    THEN ReturnDigest(c, result.digest, result.err)
                    ELSE /\ pc' = [pc EXCEPT ![c] = "sleep"]
                         /\ UNCHANGED <<ret, gidRet>>
                 /\ UNCHANGED exited
    /\ known' = [known EXCEPT ![c] = FALSE]
    /\ UNCHANGED <<adm, client, engine, op, image, count, fetched, inv>>

GetImageDigest_getDigest(c) ==
    /\ ~exited
    /\ pc[c] = "getDigest"
    /\ \E resp \in ResolveAnswers :
         LET result == getDigest(client, image[c], resp) IN
         /\ trace' = [trace EXCEPT ![c] = Append(@, Ev("getDigest", OutOf(result)))]
         /\ lastAttempt' = [lastAttempt EXCEPT ![c] = result]
         /\ answer' = [answer EXCEPT ![c] = Received(result, resp)]
         /\ IF result.kind # "return"
            THEN /\ Abort(c, result.kind)
                 /\ UNCHANGED <<digest, err, ret, gidRet>>
            ELSE /\ digest' = [digest EXCEPT ![c] = result.digest]
                 /\ err' = [err EXCEPT ![c] = result.err]
                 /\ IF result.err = NilErr
                    THEN ReturnDigest(c, result.digest, result.err)
                    ELSE IF Exhausted(count[c])
                    THEN ReturnDigest(c, result.digest, result.err)
                    ELSE /\ pc' = [pc EXCEPT ![c] = "sleep"]
                         /\ UNCHANGED <<ret, gidRet>>
                 /\ UNCHANGED exited
    /\ known' = [known EXCEPT ![c] = FALSE]
    /\ UNCHANGED <<adm, client, engine, op, image, count, fetched, inv>>

(***************************************************************************)
(* GetImageDigest, end of the loop body: sleep one second and count.       *)
(***************************************************************************)
\* a loop that counts and asks again without sleeping
GetImageDigest_Sleep_Spin(c) ==
    /\ ~exited
    /\ pc[c] = "sleep"
    /\ count' = [count EXCEPT ![c] = @ + 1]
    /\ pc' = [pc EXCEPT ![c] = "getDigest"]
    /\ UNCHANGED <<adm, client, engine, exited, op, image, digest, err, ret, gidRet,
                   lastAttempt, fetched, answer, trace, inv, known>>

\* a retry counter kept in the client and shared by its calls
GetImageDigest_Sleep_SharedCount(c) ==
    /\ ~exited
    /\ pc[c] = "sleep"
    /\ count' = [k \in Calls |-> count[k] + 1]
    /\ pc' = [pc EXCEPT ![c] = "getDigest"]
    /\ trace' = [trace EXCEPT ![c] = Append(@, Ev("sleep", "ok"))]
    /\ UNCHANGED <<adm, client, engine, exited, op, image, digest, err, ret, gidRet,
                   lastAttempt, fetched, answer, inv, known>>

GetImageDigest_Sleep(c) ==
    /\ ~exited
    /\ pc[c] = "sleep"
    /\ count' = [count EXCEPT ![c] = @ + 1]
    /\ pc' = [pc EXCEPT ![c] = "getDigest"]
    /\ trace' = [trace EXCEPT ![c] = Append(@, Ev("sleep", "ok"))]
    /\ UNCHANGED <<adm, client, engine, exited, op, image, digest, err, ret, gidRet,
                   lastAttempt, fetched, answer, inv, known>>

\* a CheckImage that sleeps and asks again for a report that is not found
CheckImage_getStatus_Retry(c) ==
    /\ ~exited
    /\ pc[c] = "getStatus"
    /\ \E resp \in ReportAnswers :
         \E report \in getReport(client, gidRet[c].digest, image[c], resp) :
            LET result == getStatus(report)
                again == /\ report.kind = "return" /\ report.err = errNotFound
                         /\ ~Exhausted(count[c])
            IN
            /\ trace' = [trace EXCEPT ![c] =
                            IF again
                            THEN Append(Append(@, Ev("getReport", OutOf(report))),
                                        Ev("sleep", "ok"))
                            ELSE Append(@, Ev("getReport", OutOf(report)))]
            /\ answer' = [answer EXCEPT ![c] = Received(report, resp)]
            /\ fetched' = [fetched EXCEPT ![c] = report]
            /\ count' = [count EXCEPT ![c] = IF again THEN @ + 1 ELSE @]
            /\ IF result.kind # "return"
               THEN /\ Abort(c, result.kind)
                    /\ UNCHANGED ret
               ELSE /\ pc' = [pc EXCEPT ![c] = IF again THEN "getStatus" ELSE "done"]
                    /\ ret' = [ret EXCEPT ![c] = IF again THEN @ ELSE result]
                    /\ UNCHANGED exited
    /\ UNCHANGED <<adm, client, engine, op, image, digest, err, gidRet, lastAttempt, inv, known>>

(***************************************************************************)
(* CheckImage, last statement: getStatus on the digest.                    *)
(***************************************************************************)
CheckImage_getStatus(c) ==
    /\ ~exited
    /\ pc[c] = "getStatus"
    /\ \E resp \in ReportAnswers :
         \E report \in getReport(client, gidRet[c].digest, image[c], resp) :
            LET result == getStatus(report) IN
            /\ trace' = [trace EXCEPT ![c] = Append(@, Ev("getReport", OutOf(report)))]
            /\ answer' = [answer EXCEPT ![c] = Received(report, resp)]
            /\ fetched' = [fetched EXCEPT ![c] = report]
            /\ IF result.kind # "return"
               THEN /\ Abort(c, result.kind)
                    /\ UNCHANGED ret
               ELSE /\ pc' = [pc EXCEPT ![c] = "done"]
                    /\ ret' = [ret EXCEPT ![c] = result]
                    /\ UNCHANGED exited
    /\ UNCHANGED <<adm, client, engine, op, image, digest, err, count, gidRet,
                   lastAttempt, inv, known>>

(***************************************************************************)
(* GetScanReport, last statement: getReport on the digest.                 *)
(***************************************************************************)
GetScanReport_getReport(c) ==
    /\ ~exited
    /\ pc[c] = "getReport"
    /\ \E resp \in ReportAnswers :
         \E result \in getReport(client, gidRet[c].digest, image[c], resp) :
            /\ trace' = [trace EXCEPT ![c] = Append(@, Ev("getReport", OutOf(result)))]
            /\ answer' = [answer EXCEPT ![c] = Received(result, resp)]
            /\ fetched' = [fetched EXCEPT ![c] = result]
            /\ IF result.kind # "return"
               THEN /\ Abort(c, result.kind)
                    /\ UNCHANGED ret
               ELSE /\ pc' = [pc EXCEPT ![c] = "done"]
                    /\ ret' = [ret EXCEPT ![c] = result]
                    /\ UNCHANGED exited
    /\ UNCHANGED <<adm, client, engine, op, image, digest, err, count, gidRet,
                   lastAttempt, inv, known>>

(***************************************************************************)
(* Specifications: one caller making its invocations one after the other.  *)
(***************************************************************************)
Step(c) ==
    \/ GetImageDigest_addImage(c)
    \/ GetImageDigest_getDigest(c)
    \/ GetImageDigest_Sleep(c)
    \/ CheckImage_getStatus(c)
    \/ GetScanReport_getReport(c)

Next ==
    \E c \in SeqCalls :
        \/ \E o \in Ops, img \in ImageRefs : Invoke(c, o, img)
        \/ GetImageDigest_addImage(c)
        \/ GetImageDigest_getDigest(c)
        \/ GetImageDigest_Sleep(c)
        \/ CheckImage_getStatus(c)
        \/ GetScanReport_getReport(c)

Spec == Init /\ [][Next]_vars

\* a remote engine of a fixed behaviour, every remote call and every sleep
\* returning
FairInit == Init /\ engine # "any"

FairSpec ==
    /\ FairInit
    /\ [][Next]_vars
    /\ \A c \in SeqCalls : WF_vars(Step(c))

(***************************************************************************)
(* Two callers of CheckImage on the one client, their remote calls and     *)
(* sleeps interleaved in every order, against an engine that is up.        *)
(***************************************************************************)
ConcInit == Init /\ engine = "ready"

ConcNext ==
    \E c \in Calls :
        \/ \E img \in ImageRefs : Invoke(c, "CheckImage", img)
        \/ GetImageDigest_addImage(c)
        \/ GetImageDigest_getDigest(c)
        \/ GetImageDigest_Sleep(c)
        \/ CheckImage_getStatus(c)

ConcSpec == ConcInit /\ [][ConcNext]_vars

TypeOK ==
    /\ client \in [baseUrl : BaseUrls, secureToken : {"token"}]
    /\ engine \in EngineModes
    /\ exited \in BOOLEAN
    /\ pc \in [Calls -> {"idle", "addImage", "getDigest", "sleep", "getStatus",
                         "getReport", "done", "panic", "fatal"}]
    /\ op \in [Calls -> Ops]
    /\ image \in [Calls -> ImageRefs]
    /\ count \in [Calls -> 0..MaxRetries]
    /\ inv \in [Calls -> 0..MaxInvocations]
    /\ known \in [Calls -> BOOLEAN]
    /\ adm.pc \in {"idle", "evaluate", "decided", "responded", "panic"}

(***************************************************************************)
(* Admission server.  The evaluator of a pod (pkg/opaimagescanner) asks    *)
(* CheckImage about the images of the pod one after the other, in the      *)
(* order of their declaration, and decides; the hook turns the decision    *)
(* into the admission response.  What CheckImage gives the evaluator is    *)
(* one of the outcomes the client has: a pass, an error, or a panic.       *)
(***************************************************************************)
MaxContainers == 3      \* images declared by a pod
UIDs == {"uid-1", "uid-2"}
Pods == UNION {[1..n -> ImageRefs] : n \in 0..MaxContainers}
CheckErrs == {ErrNoDigest, ErrScanFailed, errNotFound, ErrDigestMismatch}
CheckResults ==
    {Return("", NilPtr, TRUE, NilErr), Panic}
    \cup {Return("", NilPtr, FALSE, e) : e \in CheckErrs}

callVars == <<client, engine, exited, pc, op, image, digest, err, count, ret,
              gidRet, lastAttempt, fetched, answer, trace, inv, known>>

\* a response that admits every request
toAdmissionResponse_Allow(uid, e) ==
    IF e = NilErr
    THEN [kind |-> "panic", UID |-> "", Allowed |-> FALSE, Result |-> [Message |-> ""]]
    ELSE [kind |-> "return", UID |-> uid, Allowed |-> TRUE, Result |-> [Message |-> e]]

\* toAdmissionResponse: err.Error() panics on a nil error
toAdmissionResponse(uid, e) ==
    IF e = NilErr
    THEN [kind |-> "panic", UID |-> "", Allowed |-> FALSE, Result |-> [Message |-> ""]]
    ELSE [kind |-> "return", UID |-> uid, Allowed |-> FALSE, Result |-> [Message |-> e]]

\* an admission request for a pod arrives
Admit(uid, pod) ==
    /\ adm.pc \in {"idle", "responded", "panic"}
    /\ adm' = [NoAdmission EXCEPT !.pc = "evaluate", !.uid = uid, !.pod = pod]
    /\ UNCHANGED callVars

Checked(i, r) == [index |-> i, image |-> adm.pod[i], result |-> r]
Deny(reason) == [Allowed |-> FALSE, Reason |-> reason]
Allow == [Allowed |-> TRUE, Reason |-> NilErr]

\* an evaluator that checks every image and keeps the reason of the last
\* failure
Evaluate_LastFailure ==
    /\ adm.pc = "evaluate"
    /\ LET i == Len(adm.checked) + 1 IN
       IF i > Len(adm.pod)
       THEN adm' = [adm EXCEPT !.pc = "decided",
                               !.decision = IF @.Reason # NilErr THEN @ ELSE Allow]
       ELSE \E r \in CheckResults :
              adm' = IF r.kind # "return"
                     THEN [adm EXCEPT !.pc = "panic",
                                      !.checked = Append(@, Checked(i, r))]
                     ELSE IF ~r.ok \/ r.err # NilErr
                     THEN [adm EXCEPT !.checked = Append(@, Checked(i, r)),
                                      !.decision = Deny(r.err)]
                     ELSE [adm EXCEPT !.checked = Append(@, Checked(i, r))]
    /\ UNCHANGED callVars

\* the evaluator checks the next image of the pod, or admits the pod when
\* none is left; a failure or an error denies the pod at once
Evaluate ==
    /\ adm.pc = "evaluate"
    /\ LET i == Len(adm.checked) + 1 IN
       IF i > Len(adm.pod)
       THEN adm' = [adm EXCEPT !.pc = "decided", !.decision = Allow]
       ELSE \E r \in CheckResults :
              adm' = IF r.kind # "return"
                     THEN [adm EXCEPT !.pc = "panic",
                                      !.checked = Append(@, Checked(i, r))]
                     ELSE IF ~r.ok \/ r.err # NilErr
                     THEN [adm EXCEPT !.pc = "decided",
                                      !.checked = Append(@, Checked(i, r)),
                                      !.decision = Deny(r.err)]
                     ELSE [adm EXCEPT !.checked = Append(@, Checked(i, r))]
    /\ UNCHANGED callVars

\* the hook answers the request: the error response for a deny
Respond ==
    /\ adm.pc = "decided"
    /\ LET r == IF adm.decision.Allowed
                THEN [kind |-> "return", UID |-> adm.uid, Allowed |-> TRUE,
                      Result |-> [Message |-> ""]]
                ELSE toAdmissionResponse(adm.uid, adm.decision.Reason)
       IN  adm' = [adm EXCEPT !.pc = IF r.kind = "panic" THEN "panic" ELSE "responded",
                              !.response = r]
    /\ UNCHANGED callVars

AdmissionNext ==
    \/ \E uid \in UIDs, pod \in Pods : Admit(uid, pod)
    \/ Evaluate
    \/ Respond

AdmissionSpec == Init /\ [][AdmissionNext]_vars

(***************************************************************************)
(* Properties.                                                             *)
(***************************************************************************)
Last(seq) == seq[Len(seq)]
\* the requests of a kind that the current invocation of c has sent
Issued(c, call) ==
    Cardinality({i \in 1..Len(trace[c]) :
                    trace[c][i].call = call /\ trace[c][i].out # "fatal"})
MaxAttempts == MaxRetries + 1
PassStatuses == {StPass, StPASS, StPassMixed}

RegistrationOk(c) == trace[c] # <<>> /\ trace[c][1] = Ev("addImage", "ok")
DigestResolved(c) ==
    /\ gidRet[c].kind = "return" /\ gidRet[c].err = NilErr
    /\ lastAttempt[c].kind = "return" /\ lastAttempt[c].err = NilErr
ReportFetched(c) ==
    /\ fetched[c].kind = "return" /\ fetched[c].err = NilErr
    /\ ~fetched[c].report.isNil
\* the answer recorded for c is the answer to a request of the kind call
Answered(c, call) ==
    /\ trace[c] # <<>>
    /\ Last(trace[c]).call = call
    /\ Last(trace[c]).out # "fatal"
\* the answer is a 200 whose body decodes
Decoded(resp) ==
    /\ resp.doErr = NilErr /\ resp.readErr = NilErr
    /\ resp.StatusCode = 200 /\ resp.body.jsonErr = NilErr

WellFormed(resp, d) ==
    /\ Decoded(resp)
    /\ Len(resp.body.value) = 1
    /\ d \in DOMAIN resp.body.value[1]
    /\ Cardinality(DOMAIN resp.body.value[1][d]) = 1
    /\ \A t \in DOMAIN resp.body.value[1][d] : Len(resp.body.value[1][d][t]) = 1
TheStatus(resp, d) ==
    LET tags == resp.body.value[1][d]
    IN  tags[CHOOSE t \in DOMAIN tags : TRUE][1].Status

\* C2: with registration and resolution done and a well-formed report
\* collection, CheckImage returns (true, nil) iff the status is "pass" in
\* some letter case, and (false, non-nil error) for every other status.
C2_StatusVerdict ==
    \A c \in Calls :
        (/\ op[c] = "CheckImage"
         /\ Answered(c, "getReport")
         /\ WellFormed(answer[c], gidRet[c].digest)) =>
            /\ pc[c] = "done" /\ ret[c].kind = "return"
            /\ IF TheStatus(answer[c], gidRet[c].digest) \in PassStatuses
               THEN ret[c].ok /\ ret[c].err = NilErr
               ELSE ~ret[c].ok /\ ret[c].err # NilErr

\* a CheckImage that admitted a status written in upper case
C2_Witness ==
    \E c \in Calls :
        /\ op[c] = "CheckImage" /\ Answered(c, "getReport")
        /\ WellFormed(answer[c], gidRet[c].digest)
        /\ TheStatus(answer[c], gidRet[c].digest) = StPASS
        /\ ret[c].ok

\* C3: after a successful registration GetImageDigest calls getDigest at
\* most 6 times; it returns the digest of the first successful call, with a
\* nil error, and calls no more after it; when 6 calls failed it returns the
\* error of the 6th.
C3_BoundedAttempts ==
    \A c \in Calls :
        /\ Issued(c, "getDigest") <= MaxAttempts
        /\ \A i \in 1..Len(trace[c]) :
              trace[c][i] = Ev("getDigest", "ok") =>
                 \A j \in (i + 1)..Len(trace[c]) : trace[c][j].call # "getDigest"
        /\ (RegistrationOk(c) /\ gidRet[c].kind = "return") =>
              IF gidRet[c].err = NilErr
              THEN /\ lastAttempt[c].kind = "return"
                   /\ lastAttempt[c].err = NilErr
                   /\ gidRet[c].digest = lastAttempt[c].digest
                   /\ Cardinality({i \in 1..Len(trace[c]) :
                                     trace[c][i] = Ev("getDigest", "ok")}) = 1
              ELSE /\ Issued(c, "getDigest") = MaxAttempts
                   /\ \A i \in 1..Len(trace[c]) :
                         trace[c][i].call = "getDigest" => trace[c][i].out = "err"
                   /\ lastAttempt[c].kind = "return"
                   /\ gidRet[c].err = lastAttempt[c].err

\* a GetImageDigest that returned the error of its 6th attempt
C3_Witness ==
    \E c \in Calls :
        /\ op[c] = "GetImageDigest" /\ pc[c] = "done"
        /\ RegistrationOk(c)
        /\ Issued(c, "getDigest") = MaxAttempts
        /\ ret[c].err = ErrStatus(500)

\* the remote engine answers 404 to every registration and resolution
NotFoundForever == engine = "all404"
\* the remote engine answers 404 to every resolution
ResolutionNotFoundForever == engine \in {"resolve404", "all404"}
\* the requests of the client can be built, so that the engine is asked
Reachable == ParseOk(<<client.baseUrl>>)

\* C4 as stated: against an engine answering 404 to registration and
\* resolution forever, a returned CheckImage is (false, non-nil error) and
\* has used exactly the retry budget (6 attempts, 5 sleeps).
C4_ExactBudgetOn404 ==
    \A c \in Calls :
        (NotFoundForever /\ op[c] = "CheckImage" /\ pc[c] = "done") =>
            /\ ~ret[c].ok /\ ret[c].err # NilErr
            /\ Issued(c, "getDigest") = MaxAttempts
            /\ Issued(c, "sleep") = MaxRetries

\* C4 amended: when resolution is answered 404 forever CheckImage returns
\* (false, non-nil error); after a successful registration it has then made
\* exactly 6 attempts and 5 sleeps, after a failed registration (a 404
\* included) none at all; and every CheckImage that was invoked returns.
C4_TerminatesOn404 ==
    /\ [](\A c \in Calls :
            (ResolutionNotFoundForever /\ op[c] = "CheckImage" /\ pc[c] = "done") =>
                /\ ret[c].kind = "return" /\ ~ret[c].ok /\ ret[c].err # NilErr
                /\ IF RegistrationOk(c)
                   THEN Issued(c, "getDigest") = MaxAttempts
                        /\ Issued(c, "sleep") = MaxRetries
                   ELSE Issued(c, "getDigest") = 0 /\ Issued(c, "sleep") = 0)
    /\ \A c \in SeqCalls :
          (ResolutionNotFoundForever /\ Reachable
             /\ op[c] = "CheckImage" /\ pc[c] = "addImage")
          ~> (pc[c] = "done")

\* a CheckImage that returned after 6 attempts all answered 404
C4_Witness ==
    \E c \in Calls :
        /\ ResolutionNotFoundForever /\ op[c] = "CheckImage" /\ pc[c] = "done"
        /\ RegistrationOk(c)
        /\ Issued(c, "getDigest") = MaxAttempts
        /\ lastAttempt[c].err = errNotFound
        /\ ~ret[c].ok

\* C5: getReport returns a report only for a decoded collection of exactly
\* one entry that holds the queried digest; a collection of no entry, of
\* several entries, or whose entry lacks the digest gives a nil report and
\* a non-nil error.
C5_ReportOnlyFromOneEntry ==
    \A c \in Calls :
        Answered(c, "getReport") =>
            LET d == gidRet[c].digest
                coll == answer[c].body.value
            IN  /\ ~fetched[c].report.isNil =>
                      /\ fetched[c].kind = "return" /\ fetched[c].err = NilErr
                      /\ Decoded(answer[c])
                      /\ Len(coll) = 1
                      /\ d \in DOMAIN coll[1]
                /\ (Decoded(answer[c]) /\ (Len(coll) # 1 \/ d \notin DOMAIN coll[1])) =>
                      /\ fetched[c].kind = "return"
                      /\ fetched[c].report = NilPtr
                      /\ fetched[c].err # NilErr

\* a getReport refusing a collection of several entries that hold the digest
C5_Witness ==
    \E c \in Calls :
        /\ Answered(c, "getReport") /\ Decoded(answer[c])
        /\ Len(answer[c].body.value) > 1
        /\ gidRet[c].digest \in DOMAIN answer[c].body.value[1]
        /\ fetched[c].report = NilPtr
        /\ fetched[c].err = ErrMultiple

\* C6: when the single entry holds the queried digest but has no tag key,
\* or no report under its tags, getReport ends with an error value and not
\* with a crash.
C6_ErrorOnMissingTag ==
    \A c \in Calls :
        (/\ Answered(c, "getReport") /\ Decoded(answer[c])
         /\ Len(answer[c].body.value) = 1
         /\ gidRet[c].digest \in DOMAIN answer[c].body.value[1]
         /\ \A t \in DOMAIN answer[c].body.value[1][gidRet[c].digest] :
               Len(answer[c].body.value[1][gidRet[c].digest][t]) = 0) =>
            /\ fetched[c].kind = "return"
            /\ fetched[c].err # NilErr
            /\ pc[c] # "panic"

\* C7: for every answer of the image index getDigest returns the digest of
\* the first record with a nil error, or an empty digest with a non-nil
\* error; it never crashes.
C7_DigestOrError ==
    \A c \in Calls :
        Answered(c, "getDigest") =>
            /\ lastAttempt[c].kind = "return"
            /\ \/ /\ lastAttempt[c].err = NilErr
                  /\ Decoded(answer[c])
                  /\ Len(answer[c].body.value) >= 1
                  /\ lastAttempt[c].digest = answer[c].body.value[1].imageDigest
               \/ /\ lastAttempt[c].err # NilErr
                  /\ lastAttempt[c].digest = ""

\* the last call of c is a getDigest that returned an error
AttemptFailed(c) ==
    /\ Answered(c, "getDigest")
    /\ lastAttempt[c].kind = "return"
    /\ lastAttempt[c].err # NilErr

\* C8 as stated: a NotFound failure of getDigest is retried, a failure of
\* another kind is returned without another attempt.
C8_RetryOnlyOnNotFound ==
    \A c \in Calls :
        AttemptFailed(c) =>
            IF lastAttempt[c].err = errNotFound
            THEN Issued(c, "getDigest") < MaxAttempts => pc[c] = "sleep"
            ELSE gidRet[c].kind = "return" /\ gidRet[c].err = lastAttempt[c].err

\* C8 amended: every failure of getDigest, of whatever kind, is followed by
\* a sleep and another attempt while fewer than 6 attempts were made; only
\* the failure of the 6th attempt is returned.
C8_RetryOnAnyFailure ==
    \A c \in Calls :
        /\ AttemptFailed(c) =>
              IF Issued(c, "getDigest") < MaxAttempts
              THEN pc[c] = "sleep" /\ gidRet[c].kind = "none"
              ELSE gidRet[c].kind = "return" /\ gidRet[c].err = lastAttempt[c].err
        /\ \A i \in 1..(Len(trace[c]) - 1) :
              trace[c][i] = Ev("getDigest", "err") =>
                 /\ trace[c][i + 1] = Ev("sleep", "ok")
                 /\ i + 2 <= Len(trace[c]) => trace[c][i + 2].call = "getDigest"
        /\ (trace[c] # <<>> /\ Last(trace[c]) = Ev("sleep", "ok")) => pc[c] = "getDigest"

\* an attempt made after an attempt that failed with status 500
C8_Witness ==
    \E c \in Calls :
        /\ Issued(c, "getDigest") >= 1
        /\ lastAttempt[c].err = ErrStatus(500)
        /\ Last(trace[c]) = Ev("sleep", "ok")
        /\ pc[c] = "getDigest"

C10_RegistersFirst ==
    \A c \in Calls :
        /\ pc[c] \notin {"idle", "addImage"} => trace[c] # <<>>
        /\ trace[c] # <<>> => trace[c][1].call = "addImage"
        /\ \A i \in 2..Len(trace[c]) : trace[c][i].call # "addImage"
        /\ pc[c] = "done" => Issued(c, "addImage") = 1
        /\ (trace[c] # <<>> /\ trace[c][1].out # "ok") =>
              /\ Len(trace[c]) = 1
              /\ Issued(c, "getDigest") = 0
              /\ Issued(c, "getReport") = 0

\* a second invocation that registered and then asked for the digest
C10_Witness ==
    \E c \in Calls :
        /\ inv[c] = 2
        /\ RegistrationOk(c)
        /\ Issued(c, "getDigest") >= 1

Failing(r) == r.kind = "return" /\ (~r.ok \/ r.err # NilErr)
Passing(r) == r.kind = "return" /\ r.ok /\ r.err = NilErr

\* C11: the evaluator checks the images of the pod in the order of their
\* declaration; the pod is admitted, with no reason, iff every image of the
\* pod was checked and passed; when a checked image failed or gave an error
\* the decision is a deny whose reason is the error of the failing image of
\* the lowest index.
C11_PodAggregation ==
    LET failing == {i \in 1..Len(adm.checked) : Failing(adm.checked[i].result)}
        first == CHOOSE i \in failing : \A j \in failing : i <= j
    IN  /\ Len(adm.checked) <= Len(adm.pod)
        /\ \A i \in 1..Len(adm.checked) :
              adm.checked[i].index = i /\ adm.checked[i].image = adm.pod[i]
        /\ adm.pc \in {"decided", "responded"} =>
              /\ adm.decision.Allowed <=>
                    /\ Len(adm.checked) = Len(adm.pod)
                    /\ \A i \in 1..Len(adm.checked) : Passing(adm.checked[i].result)
              /\ adm.decision.Allowed => adm.decision.Reason = NilErr
              /\ failing # {} =>
                    /\ ~adm.decision.Allowed
                    /\ adm.decision.Reason = adm.checked[first].result.err
                    /\ adm.decision.Reason # NilErr

\* a pod of three images denied with the reason of the second, the first
\* having passed
C11_Witness ==
    /\ adm.pc = "decided"
    /\ Len(adm.pod) = 3
    /\ Len(adm.checked) = 2
    /\ Passing(adm.checked[1].result)
    /\ adm.checked[2].result.err = ErrScanFailed
    /\ adm.decision = Deny(ErrScanFailed)

\* the answer is a 200 that was read
Status200(resp) ==
    resp.doErr = NilErr /\ resp.readErr = NilErr /\ resp.StatusCode = 200
\* the error of a request whose answer is not a 200 that was read
RequestErr(resp) ==
    IF resp.doErr # NilErr THEN ErrRequest(resp.doErr)
    ELSE IF resp.readErr # NilErr THEN ErrRequest(resp.readErr)
    ELSE ErrStatus(resp.StatusCode)

\* C12: the outcome of addImage depends on the answer of the remote engine
\* to that request only, also when the invocation before registered the
\* same image: it is no error iff the answer is a 200, and otherwise the
\* error made of that answer; no other error comes from the client.
C12_AddImageStateless ==
    \A c \in Calls :
        Answered(c, "addImage") =>
            /\ Status200(answer[c]) <=> err[c] = NilErr
            /\ Status200(answer[c]) <=> Last(trace[c]).out = "ok"
            /\ ~Status200(answer[c]) =>
                  /\ err[c] = RequestErr(answer[c])
                  /\ gidRet[c] = Return("", NilPtr, FALSE, RequestErr(answer[c]))

\* an image registered by two invocations in a row, both without error
C12_Witness ==
    \E c \in Calls :
        /\ known[c]
        /\ Answered(c, "addImage")
        /\ err[c] = NilErr

\* the error the caller of the last request of c was given
Observed(c) ==
    CASE Last(trace[c]).call = "addImage" -> err[c]
      [] Last(trace[c]).call = "getDigest" -> lastAttempt[c].err
      [] OTHER -> fetched[c].err

TagsOf(c) == answer[c].body.value[1][gidRet[c].digest]
SeveralTags(c) ==
    /\ Answered(c, "getReport")
    /\ Decoded(answer[c])
    /\ Len(answer[c].body.value) = 1
    /\ gidRet[c].digest \in DOMAIN answer[c].body.value[1]
    /\ Cardinality(DOMAIN TagsOf(c)) > 1
    /\ \A t \in DOMAIN TagsOf(c) : Len(TagsOf(c)[t]) >= 1

\* C14: when the entry of the digest lists several tags, getReport returns
\* without error the first report of one of them, which may be any of them
\* whatever the tag asked for; the verdict of CheckImage is the one of that
\* report, so that when the first reports of two tags differ in status the
\* same answer gives a pass or a fail.
C14_AnyTagOfSeveral ==
    \A c \in Calls :
        SeveralTags(c) =>
            LET firsts == {TagsOf(c)[t][1].Status : t \in DOMAIN TagsOf(c)}
                outs == getReport(client, gidRet[c].digest, image[c], answer[c])
            IN  /\ fetched[c].kind = "return"
                /\ fetched[c].err = NilErr
                /\ ~fetched[c].report.isNil
                /\ fetched[c].report.Status \in firsts
                /\ {o.report.Status : o \in outs} = firsts
                /\ (op[c] = "CheckImage" /\ pc[c] = "done") =>
                      (ret[c].ok <=> ToLower(fetched[c].report.Status) = StPass)
                /\ (\E s1, s2 \in firsts : ToLower(s1) = StPass /\ ToLower(s2) # StPass) =>
                      {getStatus(o).ok : o \in outs} = {TRUE, FALSE}

\* an image admitted on the report of one tag while the first report of
\* another tag of the same answer fails
C14_Witness ==
    \E c \in Calls :
        /\ SeveralTags(c)
        /\ op[c] = "CheckImage" /\ pc[c] = "done"
        /\ ret[c].ok
        /\ \E t \in DOMAIN TagsOf(c) : TagsOf(c)[t][1].Status = StFail

\* the error getDigest makes of an answer that gives no digest
ResolveErr(resp) ==
    IF Status200(resp) THEN ErrUnmarshal(resp.body.jsonErr) ELSE RequestErr(resp)

\* C15: when GetImageDigest returns an error, it is the error of the last
\* request made: the one of the registration when that failed (no digest
\* being asked then), otherwise the one of the last getDigest attempt.  A
\* caller of GetImageDigest is given that error, while CheckImage and
\* GetScanReport return the fixed error "Unable to obtain image digest".
C15_LastErrorOrFixed ==
    \A c \in Calls :
        (gidRet[c].kind = "return" /\ gidRet[c].err # NilErr) =>
            /\ IF RegistrationOk(c)
               THEN /\ Last(trace[c]).call = "getDigest"
                    /\ lastAttempt[c].kind = "return"
                    /\ gidRet[c].err = lastAttempt[c].err
                    /\ gidRet[c].err = ResolveErr(answer[c])
               ELSE /\ Last(trace[c]).call = "addImage"
                    /\ Issued(c, "getDigest") = 0
                    /\ gidRet[c].err = RequestErr(answer[c])
            /\ pc[c] = "done"
            /\ ret[c].kind = "return"
            /\ op[c] = "GetImageDigest" => ret[c].err = gidRet[c].err
            /\ op[c] \in {"CheckImage", "GetScanReport"} =>
                  /\ ret[c] = Return("", NilPtr, FALSE, ErrNoDigest)
                  /\ ret[c].err = "Unable to obtain image digest"

\* a CheckImage whose six resolution attempts failed, the last one on a
\* transport failure: the caller is given the fixed error
C15_Witness ==
    \E c \in Calls :
        /\ op[c] = "CheckImage" /\ pc[c] = "done"
        /\ count[c] = MaxRetries
        /\ gidRet[c].err = ErrRequest("connection refused")
        /\ ret[c].err = ErrNoDigest

\* C16: in an invocation the sleeps and the getDigest attempts alternate:
\* every sleep comes right after a failed attempt and is followed by an
\* attempt only, every failed attempt but the sixth is followed by a sleep,
\* and no sleep follows a success or the sixth failure; once GetImageDigest
\* has returned after n attempts there were n - 1 sleeps, at most 5.
C16_SleepsAlternate ==
    \A c \in Calls :
        LET t == trace[c]
            attempts == Issued(c, "getDigest")
            sleeps == Issued(c, "sleep")
            nth(i) == Cardinality({j \in 1..i : t[j].call = "getDigest"})
        IN  /\ \A i \in 1..Len(t) :
                  t[i].call = "sleep" =>
                      /\ i > 1
                      /\ t[i - 1] = Ev("getDigest", "err")
                      /\ i < Len(t) => t[i + 1].call = "getDigest"
            /\ \A i \in 1..Len(t) :
                  t[i].call = "getDigest" =>
                      /\ (t[i].out = "err" /\ nth(i) < MaxAttempts) =>
                            IF i < Len(t) THEN t[i + 1] = Ev("sleep", "ok")
                            ELSE pc[c] = "sleep"
                      /\ (t[i].out # "err" \/ nth(i) = MaxAttempts) =>
                            /\ pc[c] # "sleep"
                            /\ i < Len(t) => t[i + 1].call = "getReport"
            /\ sleeps <= MaxRetries
            /\ pc[c] = "sleep" => (Last(t) = Ev("getDigest", "err") /\ sleeps = attempts - 1)
            /\ (gidRet[c].kind = "return" /\ RegistrationOk(c)) =>
                  (attempts >= 1 /\ sleeps = attempts - 1)

\* a digest resolved at the third attempt, after two sleeps
C16_Witness ==
    \E c \in Calls :
        /\ gidRet[c].kind = "return" /\ gidRet[c].err = NilErr
        /\ Issued(c, "getDigest") = 3
        /\ Issued(c, "sleep") = 2

\* the state of one call
Local(c) ==
    <<pc[c], op[c], image[c], digest[c], err[c], count[c], ret[c], gidRet[c],
      lastAttempt[c], fetched[c], answer[c], trace[c], inv[c], known[c]>>

\* each call has its registration, its retry count and its report fetch, and
\* what a CheckImage returns is made of the answers to its own requests
OwnRequests ==
    \A c \in Calls :
        /\ trace[c] # <<>> =>
              /\ trace[c][1].call = "addImage"
              /\ \A i \in 2..Len(trace[c]) : trace[c][i].call # "addImage"
        /\ count[c] = Issued(c, "sleep")
        /\ Issued(c, "getDigest") <= MaxAttempts
        /\ Issued(c, "getDigest") \in {count[c], count[c] + 1}
        /\ Issued(c, "getReport") <= 1
        /\ (op[c] = "CheckImage" /\ pc[c] = "done") =>
              IF ~RegistrationOk(c) \/ lastAttempt[c].err # NilErr
              THEN ret[c] = Return("", NilPtr, FALSE, ErrNoDigest)
              ELSE /\ Answered(c, "getReport")
                   /\ fetched[c] \in getReport(client, lastAttempt[c].digest,
                                               image[c], answer[c])
                   /\ ret[c] = getStatus(fetched[c])

\* a step of one call leaves the state of the other calls as it is, and no
\* step writes the fields of the client
OwnState ==
    /\ client' = client
    /\ \A c \in Calls :
          Local(c)' # Local(c) => \A o \in Calls \ {c} : Local(o)' = Local(o)

\* C17: two CheckImage calls on one client, interleaved in any order, do not
\* interfere: each call registers once, counts its own sleeps and attempts
\* (at most 6 attempts each) and fetches its own report, its result is made
\* of the answers to its own requests, a step of one call changes nothing
\* of the other, and the fields of the client are never written.
C17_NoInterference == []OwnRequests /\ [][OwnState]_vars

\* two calls in progress together that ended differently: one admitted its
\* image at the second attempt, the other gave up after six attempts
C17_Witness ==
    /\ inv["c1"] = 1 /\ inv["c2"] = 1
    /\ pc["c1"] = "done" /\ pc["c2"] = "done"
    /\ ret["c1"].ok /\ Issued("c1", "getDigest") = 2
    /\ ret["c2"].err = ErrNoDigest /\ Issued("c2", "getDigest") = MaxAttempts

\* C18: the response toAdmissionResponse makes of a request UID and an error
\* is never an allowing one: Allowed is false, the UID is the UID given and
\* the message of the result is the message of the error.
C18_ErrorResponseDenies ==
    /\ (adm.pc = "responded" /\ ~adm.decision.Allowed) =>
          /\ adm.response.kind = "return"
          /\ adm.response.Allowed = FALSE
          /\ adm.response.UID = adm.uid
          /\ adm.response.Result.Message = adm.decision.Reason
    /\ adm.pc = "evaluate" =>
          \A e \in CheckErrs :
              /\ toAdmissionResponse(adm.uid, e).Allowed = FALSE
              /\ toAdmissionResponse(adm.uid, e).UID = adm.uid
              /\ toAdmissionResponse(adm.uid, e).Result.Message = e

\* the request uid-2 answered with the error of a digest that was not
\* obtained
C18_Witness ==
    /\ adm.pc = "responded"
    /\ adm.uid = "uid-2"
    /\ adm.response.UID = "uid-2"
    /\ ~adm.response.Allowed
    /\ adm.response.Result.Message = "Unable to obtain image digest"

====
